---- MODULE Spec2Model ----
(***************************************************************************)
(* Behavioural authentication engine (EnhancedFAISSEngine): the per-user   *)
(* vector profile, the phase state machine, the decision policies and the  *)
(* repository writes, as a state machine.                                  *)
(*                                                                         *)
(* Numbers are fixed point: a real x is held as the integer x * Scale.     *)
(* Vectors are tuples of vector_dimension such integers.  A similarity is  *)
(* a dot product of two normalised vectors and is held at Scale * Scale.   *)
(***************************************************************************)
EXTENDS Integers, Sequences, FiniteSets, TLC

\* ------------------------------------------------------------------ bounds
Scale == 10
vector_dimension == 2
\* folded vectors a user is followed up to: where the policies and the folds are
\* followed, where the promotions are, and where calls overlap
MaxCount == 4
MaxPromotionCount == 11
MaxRaceCount == 5

Users == {"u1", "u2"}
SessionIds == {"s1", "s2"}
TaskIds == {"t1", "t2"}

\* Python's None, for an identifier or a phase argument
None == "None"

\* ------------------------------------------------- program constants
\* self.similarity_thresholds, in tenths
similarity_thresholds == [learning |-> 3, gradual_risk |-> 6, full_auth |-> 8]

\* alpha = 0.1, the learning rate of the moving average, as num / den
alpha == [num |-> 1, den |-> 10]

Phases == {"learning", "gradual_risk", "full_auth"}

PhaseRank(p) == CASE p = "learning" -> 0
                  [] p = "gradual_risk" -> 1
                  [] p = "full_auth" -> 2
                  [] OTHER -> 0

\* --------------------------------------------------------------- VectorOps
Dims == 1..vector_dimension

\* the array with the components f[1] .. f[n], each computed once
RECURSIVE ArrayOf(_, _)
ArrayOf(f, n) == IF n = 0 THEN << >> ELSE Append(ArrayOf(f, n - 1), f[n])

Vector(f) == ArrayOf(f, vector_dimension)

\* np.zeros(self.vector_dimension)
ZeroVector == Vector([i \in Dims |-> 0])

\* Python's None where a vector is expected (baseline_vector: Optional[np.ndarray])
NoVector == << >>

RECURSIVE SumUpTo(_, _)
SumUpTo(f, n) == IF n = 0 THEN 0 ELSE f[n] + SumUpTo(f, n - 1)

Dot(a, b) == SumUpTo([i \in Dims |-> a[i] * b[i]], vector_dimension)

Abs(x) == IF x < 0 THEN -x ELSE x

\* np.sum(np.abs(v))
AbsSum(v) == SumUpTo([i \in Dims |-> Abs(v[i])], vector_dimension)

\* floor(a / b + 1/2) for b > 0
RoundDiv(a, b) == (2 * a + b) \div (2 * b)

RECURSIVE SqrtSearch(_, _, _)
SqrtSearch(n, lo, hi) ==
    IF hi - lo <= 1 THEN lo
    ELSE LET mid == (lo + hi) \div 2
         IN IF mid * mid <= n THEN SqrtSearch(n, mid, hi) ELSE SqrtSearch(n, lo, mid)

\* the integer nearest to sqrt(n)
SqrtNearest(n) ==
    LET r == SqrtSearch(n, 0, n + 1)
    IN IF n - r * r > r THEN r + 1 ELSE r

\* np.linalg.norm(v), at Scale
Norm(v) == SqrtNearest(Dot(v, v))

\* a normalisation that returns its argument
Unnormalized(v) == v

\* _normalize_vector: a zero norm returns the vector itself, otherwise v / norm
Divided(v, norm) == Vector([i \in Dims |-> RoundDiv(v[i] * Scale, norm)])

_normalize_vector(v) ==
    IF Dot(v, v) = 0 THEN v ELSE Divided(v, Norm(v))

Clip(x, lo, hi) == IF x < lo THEN lo ELSE IF x > hi THEN hi ELSE x

\* a similarity whose exception handler answers 1.0
CosineOrFull(vector1, vector2) ==
    IF vector1 = NoVector \/ vector2 = NoVector THEN Scale * Scale
    ELSE Clip(Dot(_normalize_vector(vector1), _normalize_vector(vector2)),
              -(Scale * Scale), Scale * Scale)

\* _calculate_cosine_similarity: dot of the two normalised vectors, clipped to
\* [-1, 1]; any exception (a None operand) is caught and gives 0.0.
\* The value is held at Scale * Scale.
_calculate_cosine_similarity(vector1, vector2) ==
    IF vector1 = NoVector \/ vector2 = NoVector THEN 0
    ELSE Clip(Dot(_normalize_vector(vector1), _normalize_vector(vector2)),
              -(Scale * Scale), Scale * Scale)

\* a comparison that leaves the threshold itself out
MoreThan(similarity, threshold) ==
    similarity * 10 > threshold * Scale * Scale

\* similarity >= threshold, threshold in tenths
AtLeast(similarity, threshold) ==
    similarity * 10 >= threshold * Scale * Scale

\* similarity >= threshold * factor, both in tenths
AtLeastScaled(similarity, threshold, factor) ==
    similarity * 100 >= threshold * factor * Scale * Scale

Min(a, b) == IF a <= b THEN a ELSE b

\* the extractor's outputs for the event batches of the model (raw, not normalised)
RawA == Vector([i \in Dims |-> IF i = 1 THEN 2 * Scale ELSE 0])
RawB == Vector([i \in Dims |-> IF i = 2 THEN 3 * Scale ELSE 0])

\* the vector with the first two components a and b, in units of Scale
Raw(a, b) == Vector([i \in Dims |-> IF i = 1 THEN a * Scale
                                    ELSE IF i = 2 THEN b * Scale ELSE 0])

\* batches whose vectors lie at different angles to RawA and RawB, the batch of
\* the opposite direction, and the batch the processor makes the zero vector of
PolicyBatches == {RawA, RawB, Raw(3, 4), Raw(4, 3), Raw(1, 2), Raw(1, 1),
                  Raw(-1, 0), ZeroVector}

\* an event batch is held as the vector the behavioural processor makes of it;
\* EmptyBatch is the batch with no logs
EmptyBatch == << >>

\* ---------------------------------------------------------------- identities
\* _generate_uuid_from_string: the md5 digest of the id, formatted 8-4-4-4-12
_generate_uuid_from_string(input_str) == "md5:" \o input_str

\* ------------------------------------------------------------------- state
VARIABLES
    user_profiles,      \* self.user_profiles: the cache, user id -> UserVectorProfile
    db_session,         \* enhanced_behavioral_vectors, latest Session record per session id
    db_cumulative,      \* enhanced_behavioral_vectors, latest Cumulative record per user_id
    db_baseline,        \* enhanced_behavioral_vectors, Baseline records per user_id
    db_user_profiles,   \* the user_profiles table, one row per user at most
    tasks,              \* calls suspended at the awaited get_user_profile
    hist,               \* per user: what has been asked of the engine so far
    last,               \* the last operation and the result it returned
    cumulative_index    \* self.cumulative_index: the vectors added, oldest first
                        \* (followed where scope.search)

vars == <<user_profiles, db_session, db_cumulative, db_baseline, db_user_profiles,
          tasks, hist, last, cumulative_index>>

\* UserVectorProfile; resident = FALSE stands for "not in self.user_profiles"
NoProfile == [resident |-> FALSE, cumulative_vector |-> ZeroVector,
              baseline_vector |-> NoVector, vector_count |-> 0,
              learning_phase |-> "learning"]

NoRecord == [exists |-> FALSE, user_id |-> None, vector_data |-> NoVector,
             vector_count |-> 0, original_user_id |-> None, judged |-> None]

NoBaselines == [rows |-> 0, vector_data |-> NoVector]

NoUserRow == [exists |-> FALSE, id |-> None, user_id |-> None, current_phase |-> None]

\* a row of user_profiles as the account service registers it
RegisteredRow(u) == [exists |-> TRUE, id |-> _generate_uuid_from_string(u),
                     user_id |-> u, current_phase |-> "learning"]

\* the minimal row _store_session_vector_mobile inserts: id and original_user_id
\* only; the user_id column stays unset and current_phase takes its default
MinimalRow(u) == [exists |-> TRUE, id |-> _generate_uuid_from_string(u),
                  user_id |-> None, current_phase |-> "learning"]

NoIo == [vector_id |-> None,
         added |-> [session |-> 0, cumulative |-> 0, baseline |-> 0],
         trace |-> << >>]

IdleTask == [state |-> "idle", op |-> None, user |-> None, session_id |-> None,
             session_vector |-> NoVector, vector_id |-> None,
             cumulative |-> NoRecord, baseline |-> NoVector,
             lookup |-> None, io |-> NoIo]

NoHist == [valid |-> 0, degenerate |-> 0, overlapped |-> FALSE, other |-> FALSE]

NoResult == [decision |-> None, similarity_score |-> 0, confidence |-> 0,
             risk_level |-> None, risk_factor |-> None]

\* the outcomes of the two writes of a promotion, "-" for a write not attempted
NoWrites == [baseline |-> "-", phase |-> "-"]

\* phase: the phase of the profile the call analysed; kept: the call left the
\* cumulative vector and the count of that profile as they were; settled: the
\* transition check, evaluated once more where the call left off, would change
\* nothing; behind: the repository did not hold the analysed profile's cumulative
\* vector and count when the call began its update; found: the select of
\* end_session_update returned a Session record
NoLast == [op |-> "init", user |-> None, session_id |-> None, override |-> None,
           policy |-> None, result |-> NoResult, phase |-> None, kept |-> TRUE,
           analysed |-> NoProfile, folded |-> None, writes |-> NoWrites, io |-> NoIo,
           session_vector |-> NoVector, settled |-> TRUE, behind |-> FALSE,
           found |-> FALSE, similar_vectors |-> << >>]

Keys == Users \cup {_generate_uuid_from_string(u) : u \in Users}

\* the part of the state a handler reads and writes, threaded through its calls
Engine == [up |-> user_profiles, ds |-> db_session, dc |-> db_cumulative,
           db |-> db_baseline, du |-> db_user_profiles,
           added |-> [session |-> 0, cumulative |-> 0, baseline |-> 0],
           trace |-> << >>, index |-> "ok",
           ci |-> cumulative_index, search |-> FALSE]

\* the engine of a scope: its indices take the vectors ("ok"), or were built
\* for another dimension than the vectors have and refuse them ("mismatch");
\* search: the scope follows the contents of the cumulative index
EngineOf(scope) == [Engine EXCEPT !.index = scope.index, !.search = scope.search]

\* index.add(vector) on the session, cumulative or baseline index
IndexAdd(E, kind) ==
    [E EXCEPT !.added[kind] = @ + 1, !.trace = Append(@, <<"index_add", kind>>)]

\* index.add where a raise of it is met by handlers that try it again: one add
\* when the index takes the vector, n raised attempts when it does not
IndexAdds(E, kind, n) ==
    IF E.index = "ok" THEN IndexAdd(E, kind)
    ELSE [E EXCEPT !.trace = @ \o [i \in 1..n |-> <<"index_add", kind, "raised">>]]

\* the id a store returns: none when the index raised in the last fallback
IdOf(E, id) == IF E.index = "ok" THEN id ELSE None

Event(E, e) == [E EXCEPT !.trace = Append(@, e)]

\* ------------------------------------------------------- repository outcomes
\* what one insert / update / select can do: return rows, return no rows, raise a
\* foreign-key violation (code 23503), raise anything else
InsertOutcomes == {"ok", "nodata", "fk", "err"}
WriteOutcomes == {"ok", "nodata", "err"}
QueryOutcomes == {"ok", "err"}

Raises(o) == o \in {"fk", "err"}

\* the outcomes of the inserts of _store_session_vector_mobile: the first insert,
\* the insert into user_profiles, the second insert ("-": not reached)
StorePatterns ==
    {[put |-> "ok", ensure |-> "-", retry |-> "-"],
     [put |-> "nodata", ensure |-> "-", retry |-> "-"],
     [put |-> "err", ensure |-> "-", retry |-> "-"],
     [put |-> "fk", ensure |-> "nodata", retry |-> "-"],
     [put |-> "fk", ensure |-> "err", retry |-> "-"],
     [put |-> "fk", ensure |-> "ok", retry |-> "ok"],
     [put |-> "fk", ensure |-> "ok", retry |-> "nodata"],
     [put |-> "fk", ensure |-> "ok", retry |-> "err"]}

\* user_profiles.id is the primary key: a second row for the same id is refused.
\* _store_session_vector has one insert and handles every raise alike.
StorePatternsFor(scope, op, E, u) ==
    IF op = "process_mobile"
    THEN {so \in scope.store_patterns : so.ensure = "ok" => ~E.du[u].exists}
    ELSE {so \in scope.store_patterns : so.put # "fk"}

\* the entry points: process_mobile_behavioral_data and process_behavioral_data
EntryPoints == {"process_mobile", "process"}

SessionRecord(user_id, original, vector, tag) ==
    [exists |-> TRUE, user_id |-> user_id, vector_data |-> vector,
     vector_count |-> 0, original_user_id |-> original, judged |-> tag]

\* the Session record is in the repository and in the session index
StoredSession(E, sid, rec, n) ==
    IndexAdds([E EXCEPT !.ds[sid] = rec], "session", n)

\* _store_session_vector_mobile: [E, vector_id]
_store_session_vector_mobile(E, u, sid, vector, so, tag) ==
    LET user_uuid == _generate_uuid_from_string(u)
        rec == SessionRecord(user_uuid, u, vector, tag)
        E1 == Event(E, <<"put", "session", so.put>>)
    IN CASE so.put = "ok" ->
              \* a raise of the add is re-raised to the emergency fallback
              [E |-> StoredSession(E1, sid, rec, 2), vector_id |-> IdOf(E, "db")]
         [] so.put = "nodata" ->
              [E |-> E1, vector_id |-> None]
         [] so.put = "err" ->
              \* re-raised, then the emergency fallback of the outer handler
              [E |-> IndexAdds(E1, "session", 1), vector_id |-> IdOf(E, "emergency")]
         [] so.put = "fk" /\ so.ensure = "nodata" ->
              [E |-> Event(E1, <<"ensure_user", so.ensure>>), vector_id |-> None]
         [] so.put = "fk" /\ so.ensure = "err" ->
              [E |-> IndexAdds(Event(E1, <<"ensure_user", so.ensure>>), "session", 2),
               vector_id |-> IdOf(E, "local")]
         [] OTHER ->
              LET E2 == Event([E1 EXCEPT !.du[u] = MinimalRow(u)],
                              <<"ensure_user", so.ensure>>)
                  E3 == Event(E2, <<"put", "session", so.retry>>)
              IN CASE so.retry = "ok" ->
                        [E |-> StoredSession(E3, sid, rec, 3),
                         vector_id |-> IdOf(E, "db")]
                   [] so.retry = "nodata" ->
                        [E |-> E3, vector_id |-> None]
                   [] OTHER ->
                        [E |-> IndexAdds(E3, "session", 2),
                         vector_id |-> IdOf(E, "local")]

\* _store_session_vector (process_behavioral_data): the raw user id is the key;
\* the index is appended whenever the insert did not raise
_store_session_vector(E, u, sid, vector, o, tag) ==
    LET rec == SessionRecord(u, None, vector, tag)
        E1 == Event(E, <<"put", "session", o>>)
    IN CASE o = "ok" -> [E |-> StoredSession(E1, sid, rec, 1),
                         vector_id |-> IdOf(E, "db")]
         [] o = "nodata" -> [E |-> IndexAdds(E1, "session", 1), vector_id |-> None]
         [] OTHER -> [E |-> E1, vector_id |-> None]

\* ------------------------------------------------------------ ProfileCache
\* the profile _get_or_create_user_profile builds from what it read
LoadedProfile(cumulative, baseline, phase) ==
    [resident |-> TRUE,
     cumulative_vector |-> IF cumulative.exists THEN cumulative.vector_data ELSE ZeroVector,
     baseline_vector |-> baseline,
     vector_count |-> IF cumulative.exists THEN cumulative.vector_count ELSE 0,
     learning_phase |-> phase]

\* the default profile of the except branch
DefaultProfile == [NoProfile EXCEPT !.resident = TRUE]

\* db_client.get_user_profile(user_uuid): the phase of the row whose id is the
\* uuid, "none" when there is no such row
get_user_profile(E, user_uuid) ==
    LET rows == {u \in Users : E.du[u].exists /\ E.du[u].id = user_uuid}
    IN IF rows = {} THEN "none" ELSE E.du[CHOOSE u \in rows : TRUE].current_phase

\* user_profile_result.get('current_phase', 'learning') if user_profile_result
\* else 'learning'
PhaseOfLookup(lookup) == IF lookup = "none" THEN "learning" ELSE lookup

\* ---------------------------------------------------------- DecisionEngine
Result(decision, similarity, confidence, risk_level, factor) ==
    [decision |-> decision, similarity_score |-> similarity, confidence |-> confidence,
     risk_level |-> risk_level, risk_factor |-> factor]

\* a learning policy with no case for the first session
LearningWithoutFirstSession(session_vector, user_profile) ==
    Result("learn",
           _calculate_cosine_similarity(session_vector, user_profile.cumulative_vector),
           Min(80, (user_profile.vector_count * 100) \div 5),
           "low", "learning_compared")

\* a learning policy that applies its threshold: a dissimilar session is blocked
LearningThatBlocks(session_vector, user_profile) ==
    IF user_profile.vector_count > 0
       /\ ~AtLeast(_calculate_cosine_similarity(session_vector,
                                                user_profile.cumulative_vector),
                   similarity_thresholds.learning)
    THEN Result("block", 0, 80, "high", "learning_compared")
    ELSE Result("learn", 0, 20, "low", "first_session")

\* _analyze_learning_phase; confidence in hundredths
_analyze_learning_phase(session_vector, user_profile) ==
    IF user_profile.vector_count > 0
    THEN Result("learn",
                _calculate_cosine_similarity(session_vector, user_profile.cumulative_vector),
                Min(80, (user_profile.vector_count * 100) \div 5),
                "low", "learning_compared")
    ELSE Result("learn", 0, 20, "low", "first_session")

\* the three bands of a thresholded policy
Band(similarity, threshold, factor) ==
    IF AtLeast(similarity, threshold) THEN "allow"
    ELSE IF AtLeastScaled(similarity, threshold, factor) THEN "challenge"
    ELSE "block"

RiskOf(decision) == CASE decision = "allow" -> "low"
                      [] decision = "challenge" -> "medium"
                      [] OTHER -> "high"

\* the result of a thresholded policy for a similarity
Banded(decision, similarity, confidence, factor) ==
    Result(decision, similarity, confidence, RiskOf(decision), factor)

\* lines 373-393: the bands of the gradual policy, threshold and threshold * 0.7
GradualResult(similarity, vector_count) ==
    Banded(Band(similarity, similarity_thresholds.gradual_risk, 7), similarity,
           Min(80, (vector_count * 100) \div 10), "gradual")

\* _analyze_gradual_phase
_analyze_gradual_phase(session_vector, user_profile) ==
    IF user_profile.vector_count < 3
    THEN Result("learn", (8 * Scale * Scale) \div 10, 60, "low", "insufficient_data")
    ELSE GradualResult(_calculate_cosine_similarity(session_vector,
                                                    user_profile.cumulative_vector),
                       user_profile.vector_count)

\* the guard of _create_baseline_vector: fewer than 10 vectors, no baseline
BaselineAllowed(user_profile) == user_profile.vector_count >= 10

\* _create_baseline_vector: the insert's result is not looked at, only a raise
\* leaves the profile without the baseline.  The record is keyed by the raw
\* user id.
_create_baseline_vector(E, u, bo) ==
    IF ~BaselineAllowed(E.up[u]) THEN E
    ELSE IF Raises(bo) THEN Event(E, <<"put", "baseline", bo>>)
    ELSE IndexAdds([Event(E, <<"put", "baseline", bo>>) EXCEPT
                     !.db[u] = IF bo = "ok"
                               THEN [rows |-> Min(@.rows + 1, 2),
                                     vector_data |-> E.up[u].cumulative_vector]
                               ELSE @,
                     !.up[u].baseline_vector = E.up[u].cumulative_vector],
                   "baseline", 1)

\* the lower of two similarities
Lesser(a, b) == IF a <= b THEN a ELSE b

Max(a, b) == IF a >= b THEN a ELSE b

\* lines 417-437: the bands of the full policy, threshold and threshold * 0.8
FullAuthResult(similarity) ==
    Banded(Band(similarity, similarity_thresholds.full_auth, 8), similarity, 90,
           "full_auth")

\* lines 406-437, the baseline step done: [E, result]
FullAuthCompare(E, u, session_vector) ==
    [E |-> E,
     result |-> FullAuthResult(
                    Max(_calculate_cosine_similarity(session_vector,
                                                     E.up[u].baseline_vector),
                        _calculate_cosine_similarity(session_vector,
                                                     E.up[u].cumulative_vector)))]

\* _analyze_full_auth_phase: [E, result]
_analyze_full_auth_phase(E, u, session_vector, bo) ==
    FullAuthCompare(IF E.up[u].baseline_vector = NoVector
                    THEN _create_baseline_vector(E, u, bo)
                    ELSE E,
                    u, session_vector)

\* the policy the learning_phase argument selects
PolicyOf(learning_phase) ==
    CASE learning_phase = "learning" -> "learning"
      [] learning_phase = "gradual_risk" -> "gradual_risk"
      [] OTHER -> "full_auth"

\* the learning_phase argument of a call: the override when one is given, the
\* parameter's default otherwise
PhaseArgument(override) == IF override = None THEN "learning" ELSE override

\* lines 753-758: [E, result]
Analyse(E, u, session_vector, learning_phase, bo) ==
    CASE PolicyOf(learning_phase) = "learning" ->
           [E |-> E, result |-> _analyze_learning_phase(session_vector, E.up[u])]
      [] PolicyOf(learning_phase) = "gradual_risk" ->
           [E |-> E, result |-> _analyze_gradual_phase(session_vector, E.up[u])]
      [] OTHER -> _analyze_full_auth_phase(E, u, session_vector, bo)

\* the entry of set S nearest to the query: the highest inner product, the
\* older entry among equals
Nearest(index, query, S) ==
    CHOOSE i \in S :
       \A j \in S \ {i} :
          \/ Dot(index[i].vector, query) > Dot(index[j].vector, query)
          \/ Dot(index[i].vector, query) = Dot(index[j].vector, query) /\ i < j

\* cumulative_index.search(query, k) over the entries S: similarity and
\* position (from 0) of the k nearest entries, nearest first
RECURSIVE Search(_, _, _, _)
Search(index, query, S, k) ==
    IF k = 0 \/ S = {} THEN << >>
    ELSE LET i == Nearest(index, query, S)
         IN << [similarity |-> Dot(index[i].vector, query), index |-> i - 1] >>
               \o Search(index, query, S \ {i}, k - 1)

\* _find_similar_vectors: the user id is not used; the whole cumulative index
\* is searched
_find_similar_vectors(E, user_id, query_vector, k) ==
    Search(E.ci, _normalize_vector(query_vector), 1..Len(E.ci), Min(k, Len(E.ci)))

\* similar_vectors of the result: the learning policy returns the first three
\* of five when the profile has vectors, the gradual policy none, the
\* full-auth policy five
SimilarVectors(E, u, session_vector, learning_phase) ==
    CASE PolicyOf(learning_phase) = "learning" ->
           IF E.up[u].vector_count > 0
           THEN LET found == _find_similar_vectors(E, u, session_vector, 5)
                IN SubSeq(found, 1, Min(3, Len(found)))
           ELSE << >>
      [] PolicyOf(learning_phase) = "gradual_risk" -> << >>
      [] OTHER -> _find_similar_vectors(E, u, session_vector, 5)

\* a baseline insert is attempted by this analysis
AnalysisWritesBaseline(E, u, learning_phase) ==
    /\ PolicyOf(learning_phase) = "full_auth"
    /\ E.up[u].baseline_vector = NoVector
    /\ BaselineAllowed(E.up[u])

\* --------------------------------------------------------- cumulative update
\* an update that folds whatever the decision
NeverSkips(decision) == FALSE

\* "if decision == 'block': return"
SkipsUpdate(decision) == decision = "block"

\* (1 - alpha) * cumulative + alpha * session, held at alpha.den times its value
WeightedUpdate(cumulative, session_vector) ==
    Vector([i \in Dims |-> (alpha.den - alpha.num) * cumulative[i]
                             + alpha.num * session_vector[i]])

\* the new cumulative vector: the first vector is copied, later ones averaged in
NewCumulative(user_profile, session_vector) ==
    _normalize_vector(IF user_profile.vector_count = 0
                      THEN session_vector
                      ELSE WeightedUpdate(user_profile.cumulative_vector, session_vector))

\* the profile after lines 470-473
FoldedProfile(user_profile, session_vector) ==
    [user_profile EXCEPT !.cumulative_vector = NewCumulative(user_profile, session_vector),
                         !.vector_count = @ + 1]

\* a record whose metadata carries the count of a first vector
CumulativeRecordOfFirst(u, user_profile) ==
    [exists |-> TRUE, user_id |-> _generate_uuid_from_string(u),
     vector_data |-> user_profile.cumulative_vector,
     vector_count |-> 1,
     original_user_id |-> u, judged |-> None]

CumulativeRecord(u, user_profile) ==
    [exists |-> TRUE, user_id |-> _generate_uuid_from_string(u),
     vector_data |-> user_profile.cumulative_vector,
     vector_count |-> user_profile.vector_count,
     original_user_id |-> u, judged |-> None]

\* the latest Cumulative record of the user carries the vector and the count of
\* the cached profile (no record: no vector folded yet)
RecordMatches(E, u) ==
    LET record == E.dc[_generate_uuid_from_string(u)]
    IN IF record.exists
       THEN /\ record.vector_data = E.up[u].cumulative_vector
            /\ record.vector_count = E.up[u].vector_count
       ELSE E.up[u].vector_count = 0

\* the update reaches the fold: the decision is not block and the profile is cached
WillFold(E, u, decision) == ~SkipsUpdate(decision) /\ E.up[u].resident

\* _update_cumulative_vector: the profile is updated, then the insert is tried;
\* the cumulative index is appended when rows come back and when the insert raises
\* an update that takes the fold back when the insert raises
PutCumulativeOrUndo(E, u, folded, co) ==
    IF co = "ok"
    THEN IndexAdd([E EXCEPT !.up[u] = folded,
                            !.dc[_generate_uuid_from_string(u)] =
                                CumulativeRecord(u, folded)],
                  "cumulative")
    ELSE E

\* an update whose handler of a raised insert leaves the index alone
PutCumulativeUnindexed(E, u, folded, co) ==
    IF co = "ok"
    THEN IndexAdd([E EXCEPT !.up[u] = folded,
                            !.dc[_generate_uuid_from_string(u)] =
                                CumulativeRecord(u, folded),
                            !.trace = @ \o << <<"profile_update">>,
                                              <<"put", "cumulative", co>> >>],
                  "cumulative")
    ELSE [E EXCEPT !.up[u] = folded,
                   !.trace = @ \o << <<"profile_update">>,
                                     <<"put", "cumulative", co>> >>]

\* cumulative_index after index.add(new_cumulative); owner: the user whose
\* update added the vector (the index itself keeps no owner)
Indexed(E, u, folded) ==
    IF E.search /\ E.index = "ok"
    THEN Append(E.ci, [owner |-> u, vector |-> folded.cumulative_vector])
    ELSE E.ci

\* lines 470-512, for the profile as updated
PutCumulative(E, u, folded, co) ==
    CASE co = "ok" ->
           IndexAdds([E EXCEPT !.up[u] = folded,
                               !.ci = Indexed(E, u, folded),
                               !.dc[_generate_uuid_from_string(u)] =
                                   CumulativeRecord(u, folded),
                               !.trace = @ \o << <<"profile_update">>,
                                                 <<"put", "cumulative", co>> >>],
                     "cumulative", 2)
      [] co = "nodata" ->
           [E EXCEPT !.up[u] = folded,
                     !.trace = @ \o << <<"profile_update">>,
                                       <<"put", "cumulative", co>> >>]
      [] OTHER ->
           IndexAdds([E EXCEPT !.up[u] = folded,
                               !.ci = Indexed(E, u, folded),
                               !.trace = @ \o << <<"profile_update">>,
                                                 <<"put", "cumulative", co>> >>],
                     "cumulative", 1)

\* lines 514-531: the handler of whatever lines 440-512 let through folds the
\* session vector into the cached profile, as that profile is by then
EmergencyFallback(E, u, session_vector) ==
    [E EXCEPT !.up[u] = FoldedProfile(@, session_vector),
              !.trace = Append(@, <<"profile_update">>)]

\* an index.add that raises inside the handler of the insert, or after an
\* insert that returned rows and again inside that handler, reaches line 514
_update_cumulative_vector(E, u, session_vector, decision, co) ==
    IF ~WillFold(E, u, decision) THEN E
    ELSE IF E.index # "ok" /\ co # "nodata"
    THEN EmergencyFallback(PutCumulative(E, u, FoldedProfile(E.up[u], session_vector),
                                         co),
                           u, session_vector)
    ELSE PutCumulative(E, u, FoldedProfile(E.up[u], session_vector), co)

\* ------------------------------------------------------- PhaseStateMachine
\* _update_user_learning_phase: the row whose user_id column is the raw id is
\* updated, then the cached profile; a raise leaves both as they were
_update_user_learning_phase(E, u, new_phase, po) ==
    IF Raises(po) THEN Event(E, <<"set_phase", new_phase, "raised">>)
    ELSE LET E1 == IF E.du[u].exists /\ E.du[u].user_id = u
                   THEN [E EXCEPT !.du[u].current_phase = new_phase]
                   ELSE E
             E2 == IF E1.up[u].resident
                   THEN [E1 EXCEPT !.up[u].learning_phase = new_phase]
                   ELSE E1
         IN Event(E2, <<"set_phase", new_phase, "done">>)

\* the branch _check_learning_phase_transition takes for a row and a profile
TransitionOf(current_phase, user_profile) ==
    IF current_phase = "learning" /\ user_profile.vector_count >= 5
    THEN "to_gradual_risk"
    ELSE IF current_phase = "gradual_risk" /\ user_profile.vector_count >= 10
    THEN "to_full_auth"
    ELSE "stay"

\* the row the transition check selects: .eq('user_id', user_id)
PhaseRowFound(E, u) == E.du[u].exists /\ E.du[u].user_id = u

\* _check_learning_phase_transition
_check_learning_phase_transition(E, u, qo, bo, po) ==
    IF ~E.up[u].resident THEN E
    ELSE IF Raises(qo) THEN E
    ELSE IF ~PhaseRowFound(E, u) THEN E
    ELSE LET t == TransitionOf(E.du[u].current_phase, E.up[u])
         IN CASE t = "to_gradual_risk" ->
                   _update_user_learning_phase(E, u, "gradual_risk", po)
              [] t = "to_full_auth" ->
                   _update_user_learning_phase(_create_baseline_vector(E, u, bo),
                                               u, "full_auth", po)
              [] OTHER -> E

\* the transition check, evaluated once more on what an evaluation left, the
\* repository answering as before, leaves the cache, the repository and the
\* indices as they are
Settled(E, u, qo, bo, po) ==
    [_check_learning_phase_transition(E, u, qo, bo, po) EXCEPT !.trace = E.trace] = E

\* ------------------------------------------------------------------- steps
\* What a specification follows: the users and sessions that call, the number
\* of folded vectors a user is followed up to, and whether the record of the
\* last operation keeps the identifiers and the index and repository traffic.
\* A scope without io does not look at the indices and at the order of the
\* repository calls, and draws one outcome for each state an insert can leave:
\* the record stored (rows came back) or not (the insert raised).
Stored == {so \in StorePatterns : so.put = "ok"}
StoredOrNot == {so \in StorePatterns : so.put \in {"ok", "err"}}

\* the policies and the folds, under every phase argument
MainScope == [users |-> {"u1"}, sessions |-> {"s1"}, max_count |-> MaxCount,
              entry_points |-> {"process_mobile"}, batches |-> {RawA, RawB},
              registered |-> {{"u1"}},
              overrides |-> {None, "gradual_risk", "full_auth"},
              store_patterns |-> StoredOrNot, insert_outcomes |-> {"ok", "err"},
              io |-> FALSE, index |-> "ok",
              search |-> FALSE]

\* the promotions of a user whose sessions are alike, called with no phase
\* argument or with full_auth
PromotionScope == [users |-> {"u1"}, sessions |-> {"s1"},
                   max_count |-> MaxPromotionCount,
                   entry_points |-> EntryPoints, batches |-> {RawA},
                   registered |-> {{"u1"}}, overrides |-> {None, "full_auth"},
                   store_patterns |-> Stored, insert_outcomes |-> {"ok", "err"},
                   io |-> FALSE, index |-> "ok",
                   search |-> FALSE]

\* calls for one user that overlap at the awaited get_user_profile
RaceScope == [users |-> {"u1"}, sessions |-> {"s1"}, max_count |-> MaxRaceCount,
              entry_points |-> {"process_mobile"}, batches |-> {RawA},
              registered |-> {{"u1"}}, overrides |-> {None},
              store_patterns |-> Stored, insert_outcomes |-> {"ok", "err"},
              io |-> FALSE, index |-> "ok",
              search |-> FALSE]

InitFor(scope) ==
    /\ user_profiles = [u \in Users |-> NoProfile]
    /\ db_session = [sid \in SessionIds |-> NoRecord]
    /\ db_cumulative = [k \in Keys |-> NoRecord]
    /\ db_baseline = [k \in Keys |-> NoBaselines]
    /\ \E registered \in scope.registered :
         db_user_profiles = [u \in Users |-> IF u \in registered
                                             THEN RegisteredRow(u) ELSE NoUserRow]
    /\ tasks = [t \in TaskIds |-> IdleTask]
    /\ hist = [u \in Users |-> NoHist]
    /\ last = NoLast
    /\ cumulative_index = << >>

Commit(E) ==
    /\ user_profiles' = E.up
    /\ db_session' = E.ds
    /\ db_cumulative' = E.dc
    /\ db_baseline' = E.db
    /\ db_user_profiles' = E.du
    /\ cumulative_index' = E.ci

\* another call for the same user is suspended
OtherInFlight(u, t) ==
    \E o \in TaskIds : o # t /\ tasks[o].state # "idle" /\ tasks[o].user = u

Verdict(decision) == IF decision = "block" THEN "block" ELSE "pass"

\* the ghost tag of a Session record becomes the verdict of the call that
\* stored it
Judge(E, sid, tag, decision) ==
    IF E.ds[sid].exists /\ E.ds[sid].judged = tag
    THEN [E EXCEPT !.ds[sid].judged = Verdict(decision)]
    ELSE E

\* hist after a process_session call returned; validated: the call got past
\* the checks of the event batch and of the vector
Recorded(h, decision, validated, overlapped) ==
    IF h.other THEN h
    ELSE [h EXCEPT !.valid = IF validated /\ decision # "block" THEN @ + 1 ELSE @,
                   !.degenerate = IF ~validated THEN @ + 1 ELSE @,
                   !.overlapped = @ \/ overlapped]

\* the specification follows a user up to scope.max_count folded vectors
WithinBounds(scope, u, count) ==
    /\ count < scope.max_count
    /\ ~hist[u].other => hist[u].valid < scope.max_count

Sum3(a, b) == [session |-> a.session + b.session,
               cumulative |-> a.cumulative + b.cumulative,
               baseline |-> a.baseline + b.baseline]

\* the identifiers and traffic of a call: before its suspension, and after
IoOf(scope, vector_id, before, E) ==
    IF scope.io
    THEN [vector_id |-> vector_id, added |-> Sum3(before.added, E.added),
          trace |-> before.trace \o E.trace]
    ELSE NoIo

\* the result as the record of the last operation keeps it
Reported(scope, result) ==
    IF scope.io THEN result ELSE [NoResult EXCEPT !.decision = result.decision]

\* the profile before the call, as the record of the last operation keeps it
Observed(scope, user_profile) == IF scope.io THEN user_profile ELSE NoProfile

SameCumulative(p, q) ==
    p.cumulative_vector = q.cumulative_vector /\ p.vector_count = q.vector_count

\* lines 752-772 (and 167-180): analysis, cumulative update, the result.  E holds
\* the profile of the user; before: the traffic of the call before it suspended.
Finish(scope, E, op, u, sid, session_vector, vector_id, tag, t, before) ==
    \E override \in scope.overrides :
      \E bo \in (IF AnalysisWritesBaseline(E, u, PhaseArgument(override))
                 THEN WriteOutcomes ELSE {"ok"}) :
        \E a \in {Analyse(E, u, session_vector, PhaseArgument(override), bo)} :
          \E co \in (IF WillFold(a.E, u, a.result.decision)
                     THEN scope.insert_outcomes ELSE {"ok"}) :
            \E E3 \in {Judge(_update_cumulative_vector(a.E, u, session_vector,
                                                       a.result.decision, co),
                             sid, tag, a.result.decision)} :
              /\ Commit(E3)
              /\ tasks' = IF t = None THEN tasks ELSE [tasks EXCEPT ![t] = IdleTask]
              /\ hist' = [hist EXCEPT ![u] =
                             Recorded(@, a.result.decision, TRUE, OtherInFlight(u, t))]
              /\ last' = [op |-> op, user |-> u, session_id |-> sid,
                          override |-> override,
                          policy |-> PolicyOf(PhaseArgument(override)),
                          result |-> Reported(scope, a.result),
                          phase |-> E.up[u].learning_phase,
                          kept |-> SameCumulative(E.up[u], E3.up[u]),
                          analysed |-> Observed(scope, E.up[u]),
                          folded |-> None,
                          writes |-> [NoWrites EXCEPT
                                        !.baseline =
                                           IF AnalysisWritesBaseline(
                                                  E, u, PhaseArgument(override))
                                           THEN bo ELSE "-"],
                          io |-> IoOf(scope, vector_id, before, E3),
                          session_vector |-> IF scope.io THEN session_vector
                                             ELSE NoVector,
                          settled |-> TRUE,
                          behind |-> scope.io /\ ~RecordMatches(E, u),
                          found |-> FALSE,
                          similar_vectors |->
                             IF scope.search
                             THEN SimilarVectors(E, u, session_vector,
                                                 PhaseArgument(override))
                             ELSE << >>]

\* process_mobile_behavioral_data, lines 710-744: no logs, or an all-zero vector
ProcessMobileRejected(scope, u, logs) ==
    /\ IF logs = EmptyBatch THEN TRUE ELSE AbsSum(_normalize_vector(logs)) = 0
    /\ ~hist[u].other => hist[u].degenerate < 1
    /\ hist' = [hist EXCEPT ![u] = Recorded(@, "learn", FALSE, FALSE)]
    /\ last' = [NoLast EXCEPT
                  !.op = "process_mobile", !.user = u,
                  !.analysed = Observed(scope, user_profiles[u]),
                  !.result = Reported(scope,
                                 IF logs = EmptyBatch
                                 THEN Result("learn", 0, 50, "medium", "no_logs")
                                 ELSE Result("learn", 0, 30, "medium", "invalid_vector")),
                  !.session_vector = IF scope.io /\ logs # EmptyBatch
                                     THEN _normalize_vector(logs) ELSE NoVector]
    /\ UNCHANGED <<user_profiles, db_session, db_cumulative, db_baseline,
                   db_user_profiles, tasks, cumulative_index>>

\* process_mobile_behavioral_data checks the batch and the vector (lines 712,
\* 733); process_behavioral_data checks nothing
ValidBatch(op, logs) ==
    IF logs = EmptyBatch THEN FALSE
    ELSE op = "process_mobile" => AbsSum(_normalize_vector(logs)) # 0

\* line 747 / line 162
StoreSession(op, E, u, sid, session_vector, so, tag) ==
    IF op = "process_mobile"
    THEN _store_session_vector_mobile(E, u, sid, session_vector, so, tag)
    ELSE _store_session_vector(E, u, sid, session_vector, so.put, tag)

\* a process call that reads the profile of a cached user from the repository
\* again
ProcessReloading(scope, op, u, sid, logs) ==
    /\ ValidBatch(op, logs)
    /\ user_profiles[u].resident
    /\ WithinBounds(scope, u, user_profiles[u].vector_count)
    /\ \E so \in StorePatternsFor(scope, op, EngineOf(scope), u),
          session_vector \in {_normalize_vector(logs)} :
         \E st \in {StoreSession(op, EngineOf(scope), u, sid, session_vector, so,
                                 "pending")} :
           \E E1 \in {[st.E EXCEPT !.up[u] =
                         LoadedProfile(
                            st.E.dc[_generate_uuid_from_string(u)],
                            st.E.db[_generate_uuid_from_string(u)].vector_data,
                            PhaseOfLookup(get_user_profile(
                               st.E, _generate_uuid_from_string(u))))]} :
             Finish(scope, E1, op, u, sid, session_vector, st.vector_id,
                    "pending", None, NoIo)

\* a process call for a user whose profile is cached
ProcessResident(scope, op, u, sid, logs) ==
    /\ ValidBatch(op, logs)
    /\ user_profiles[u].resident
    /\ WithinBounds(scope, u, user_profiles[u].vector_count)
    /\ \E so \in StorePatternsFor(scope, op, EngineOf(scope), u),
          session_vector \in {_normalize_vector(logs)} :
         \E st \in {StoreSession(op, EngineOf(scope), u, sid, session_vector, so, "pending")} :
           Finish(scope, st.E, op, u, sid, session_vector, st.vector_id,
                  "pending", None, NoIo)

\* a load whose failure leaves the call without a profile
ProfileOrNothing(E, u, lo) ==
    IF Raises(lo) THEN NoProfile
    ELSE LoadedProfile(E.dc[_generate_uuid_from_string(u)],
                       E.db[_generate_uuid_from_string(u)].vector_data,
                       PhaseOfLookup(get_user_profile(E, _generate_uuid_from_string(u))))

\* a load that builds the profile from the records whether or not a read raised
ProfileDespiteFailure(E, u, lo) ==
    LoadedProfile(E.dc[_generate_uuid_from_string(u)],
                  E.db[_generate_uuid_from_string(u)].vector_data,
                  PhaseOfLookup(get_user_profile(E, _generate_uuid_from_string(u))))

\* the profile _get_or_create_user_profile caches when nothing runs between
\* its reads and its return; lo: a select or the lookup raised
ProfileFromRepository(E, u, lo) ==
    IF Raises(lo) THEN DefaultProfile
    ELSE LoadedProfile(E.dc[_generate_uuid_from_string(u)],
                       E.db[_generate_uuid_from_string(u)].vector_data,
                       PhaseOfLookup(get_user_profile(E, _generate_uuid_from_string(u))))

\* a process call for a user whose profile is not cached, no other call running
\* while it awaits get_user_profile
ProcessLoad(scope, op, u, sid, logs) ==
    /\ ValidBatch(op, logs)
    /\ ~user_profiles[u].resident
    /\ ~OtherInFlight(u, None)
    /\ WithinBounds(scope, u, db_cumulative[_generate_uuid_from_string(u)].vector_count)
    /\ \E so \in StorePatternsFor(scope, op, EngineOf(scope), u), lo \in QueryOutcomes,
          session_vector \in {_normalize_vector(logs)} :
         \E st \in {StoreSession(op, EngineOf(scope), u, sid, session_vector, so, "pending")} :
           \E E1 \in {[st.E EXCEPT !.up[u] = ProfileFromRepository(st.E, u, lo),
                                   !.trace = Append(@, <<"load", lo>>)]} :
             Finish(scope, E1, op, u, sid, session_vector, st.vector_id,
                    "pending", None, NoIo)

\* what the load read before its await
SuspendedTask(scope, op, u, sid, session_vector, vector_id, E) ==
    [IdleTask EXCEPT !.state = "awaiting", !.op = op, !.user = u, !.session_id = sid,
                     !.session_vector = session_vector,
                     !.cumulative = E.dc[_generate_uuid_from_string(u)],
                     !.baseline = E.db[_generate_uuid_from_string(u)].vector_data,
                     !.lookup = "pending",
                     !.io = IoOf(scope, vector_id, NoIo, E)]

\* a process call for a user whose profile is not cached: the call stores the
\* session vector, reads the latest Cumulative and Baseline records and awaits
\* get_user_profile
ProcessSuspend(scope, t, op, u, sid, logs) ==
    /\ ValidBatch(op, logs)
    /\ ~user_profiles[u].resident
    /\ tasks[t].state = "idle"
    /\ WithinBounds(scope, u, db_cumulative[_generate_uuid_from_string(u)].vector_count)
    /\ \E so \in StorePatternsFor(scope, op, EngineOf(scope), u),
          session_vector \in {_normalize_vector(logs)} :
         \E st \in {StoreSession(op, EngineOf(scope), u, sid, session_vector, so,
                                 "pending:" \o t)} :
            /\ Commit(st.E)
            /\ tasks' = [tasks EXCEPT ![t] =
                            SuspendedTask(scope, op, u, sid, session_vector,
                                          st.vector_id, st.E)]
            /\ hist' = [hist EXCEPT ![u] =
                           IF @.other THEN @
                           ELSE [@ EXCEPT !.overlapped = @ \/ OtherInFlight(u, t)]]
            /\ last' = [NoLast EXCEPT !.op = "suspend", !.user = u, !.session_id = sid]

\* the repository answers get_user_profile: a phase, no row, or a failure
ServeLookup(t, qo) ==
    /\ tasks[t].state = "awaiting"
    /\ tasks[t].lookup = "pending"
    /\ tasks' = [tasks EXCEPT ![t].lookup =
                    IF Raises(qo) THEN "err"
                    ELSE get_user_profile(Engine,
                                          _generate_uuid_from_string(tasks[t].user))]
    /\ last' = [NoLast EXCEPT !.op = "lookup", !.user = tasks[t].user]
    /\ UNCHANGED <<user_profiles, db_session, db_cumulative, db_baseline,
                   db_user_profiles, hist, cumulative_index>>

\* the profile the resumed load caches: lines 280-293, or 295-308 on a failure
ResumedProfile(task) ==
    IF task.lookup = "err" THEN DefaultProfile
    ELSE LoadedProfile(task.cumulative, task.baseline, PhaseOfLookup(task.lookup))

\* the call resumes: the profile is built from what was read, cached (whatever
\* the cache holds by now) and the call runs to its end
Resume(scope, t) ==
    /\ tasks[t].state = "awaiting"
    /\ tasks[t].lookup # "pending"
    /\ \E task \in {tasks[t]} :
         \E E1 \in {[EngineOf(scope) EXCEPT !.up[task.user] = ResumedProfile(task)]} :
           Finish(scope, E1, task.op, task.user, task.session_id, task.session_vector,
                  task.io.vector_id, "pending:" \o t, t, task.io)

\* np.array(session_vector_data, dtype=np.float32): the rounding to single
\* precision is below the resolution of the model
AsFloat32(vector_data) == vector_data

\* end_session_update
EndSession(scope, u, sid) ==
    /\ user_profiles[u].resident =>
         WithinBounds(scope, u, user_profiles[u].vector_count)
    /\ \E qo \in QueryOutcomes, rec \in {db_session[sid]} :
         \E reaches \in {~Raises(qo) /\ rec.exists} :
           \E co \in (IF reaches /\ WillFold(EngineOf(scope), u, "allow")
                      THEN scope.insert_outcomes ELSE {"ok"}) :
             \E E1 \in {IF reaches
                        THEN _update_cumulative_vector(EngineOf(scope), u,
                                                       AsFloat32(rec.vector_data),
                                                       "allow", co)
                        ELSE EngineOf(scope)} :
               \E move \in {IF reaches /\ E1.up[u].resident /\ PhaseRowFound(E1, u)
                            THEN TransitionOf(E1.du[u].current_phase, E1.up[u])
                            ELSE "stay"} :
                 \E qo2 \in (IF reaches /\ E1.up[u].resident
                             THEN QueryOutcomes ELSE {"ok"}),
                    bo \in (IF move = "to_full_auth" THEN WriteOutcomes ELSE {"ok"}),
                    po \in (IF move # "stay" THEN QueryOutcomes ELSE {"ok"}) :
                   \E E2 \in {IF reaches
                              THEN _check_learning_phase_transition(E1, u, qo2, bo, po)
                              ELSE E1} :
                     /\ Commit(E2)
                     /\ hist' = [hist EXCEPT ![u] =
                                    IF reaches /\ WillFold(EngineOf(scope), u, "allow")
                                    THEN [@ EXCEPT !.other = TRUE] ELSE @]
                     /\ last' = [NoLast EXCEPT
                                   !.op = "end_session", !.user = u,
                                   !.session_id = sid,
                                   !.kept = SameCumulative(user_profiles[u],
                                                           E2.up[u]),
                                   !.analysed = Observed(scope, user_profiles[u]),
                                   !.folded = IF reaches /\ WillFold(EngineOf(scope), u, "allow")
                                              THEN rec.judged ELSE None,
                                   !.writes =
                                      [baseline |-> IF move = "to_full_auth"
                                                       /\ ~Raises(qo2)
                                                       /\ BaselineAllowed(E1.up[u])
                                                    THEN bo ELSE "-",
                                       phase |-> IF move # "stay" /\ ~Raises(qo2)
                                                 THEN po ELSE "-"],
                                   !.io = IoOf(scope, None, NoIo, E2),
                                   !.settled =
                                      IF reaches THEN Settled(E2, u, qo2, bo, po)
                                      ELSE TRUE,
                                   !.found = reaches]
                     /\ UNCHANGED tasks

\* the process ends and a new one is constructed: the cache is empty, no call is
\* in flight, the repository is what it was
Restart ==
    /\ \E u \in Users : user_profiles[u].resident
    /\ user_profiles' = [u \in Users |-> NoProfile]
    /\ tasks' = [t \in TaskIds |-> IdleTask]
    /\ db_session' = [sid \in SessionIds |->
                        IF db_session[sid].exists
                           /\ db_session[sid].judged \in {"pending:" \o t : t \in TaskIds}
                        THEN [db_session[sid] EXCEPT !.judged = "unjudged"]
                        ELSE db_session[sid]]
    /\ hist' = [u \in Users |-> [NoHist EXCEPT !.other = TRUE]]
    /\ last' = [NoLast EXCEPT !.op = "restart"]
    /\ cumulative_index' = << >>
    /\ UNCHANGED <<db_cumulative, db_baseline, db_user_profiles>>

\* ---------------------------------------------------------- specifications
Init == InitFor(MainScope)

\* calls that do not overlap, for every phase argument
Next ==
    \/ \E u \in MainScope.users, logs \in {EmptyBatch, ZeroVector} :
         ProcessMobileRejected(MainScope, u, logs)
    \/ \E op \in MainScope.entry_points, u \in MainScope.users,
          sid \in MainScope.sessions, logs \in MainScope.batches :
            ProcessResident(MainScope, op, u, sid, logs)
    \/ \E op \in MainScope.entry_points, u \in MainScope.users,
          sid \in MainScope.sessions, logs \in MainScope.batches :
            ProcessLoad(MainScope, op, u, sid, logs)
    \/ \E u \in MainScope.users, sid \in MainScope.sessions :
         EndSession(MainScope, u, sid)

Spec == Init /\ [][Next]_vars

InitPromotion == InitFor(PromotionScope)

\* calls that do not overlap, up to the promotion to full_auth
NextPromotion ==
    \/ \E op \in PromotionScope.entry_points, u \in PromotionScope.users,
          sid \in PromotionScope.sessions, logs \in PromotionScope.batches :
            ProcessResident(PromotionScope, op, u, sid, logs)
    \/ \E op \in PromotionScope.entry_points, u \in PromotionScope.users,
          sid \in PromotionScope.sessions, logs \in PromotionScope.batches :
            ProcessLoad(PromotionScope, op, u, sid, logs)
    \/ \E u \in PromotionScope.users, sid \in PromotionScope.sessions :
         EndSession(PromotionScope, u, sid)

SpecPromotion == InitPromotion /\ [][NextPromotion]_vars

InitRace == InitFor(RaceScope)

\* calls that overlap: a call suspended at its lookup resumes after others ran
NextRace ==
    \/ \E t \in TaskIds, op \in RaceScope.entry_points, u \in RaceScope.users,
          sid \in RaceScope.sessions, logs \in RaceScope.batches :
            ProcessSuspend(RaceScope, t, op, u, sid, logs)
    \/ \E t \in TaskIds, qo \in QueryOutcomes : ServeLookup(t, qo)
    \/ \E t \in TaskIds : Resume(RaceScope, t)
    \/ \E u \in RaceScope.users, sid \in RaceScope.sessions :
         EndSession(RaceScope, u, sid)
    \/ Restart

SpecRace == InitRace /\ [][NextRace]_vars

\* the engine is restarted between calls and finds the repository as the
\* earlier process left it; a load can fail
RecoveryScope == [users |-> {"u1"}, sessions |-> {"s1"},
                  max_count |-> MaxPromotionCount,
                  entry_points |-> {"process_mobile"}, batches |-> {RawA},
                  registered |-> {{"u1"}}, overrides |-> {None},
                  store_patterns |-> Stored, insert_outcomes |-> {"ok"},
                  io |-> FALSE, index |-> "ok",
                  search |-> FALSE]

InitRecovery == InitFor(RecoveryScope)

NextRecovery ==
    \/ \E op \in RecoveryScope.entry_points, u \in RecoveryScope.users,
          sid \in RecoveryScope.sessions, logs \in RecoveryScope.batches :
            ProcessResident(RecoveryScope, op, u, sid, logs)
    \/ \E op \in RecoveryScope.entry_points, u \in RecoveryScope.users,
          sid \in RecoveryScope.sessions, logs \in RecoveryScope.batches :
            ProcessLoad(RecoveryScope, op, u, sid, logs)
    \/ \E u \in RecoveryScope.users, sid \in RecoveryScope.sessions :
         EndSession(RecoveryScope, u, sid)
    \/ Restart

SpecRecovery == InitRecovery /\ [][NextRecovery]_vars

\* the policies are functions of the profile and of the session vector: one call
\* of an entry point for each profile a user can have, under every phase
\* argument and every outcome of the repository calls
PolicyScope == [users |-> {"u1"}, sessions |-> {"s1"},
                max_count |-> MaxPromotionCount,
                entry_points |-> EntryPoints, batches |-> PolicyBatches,
                registered |-> {{"u1"}},
                overrides |-> {None, "gradual_risk", "full_auth"},
                store_patterns |-> StorePatterns, insert_outcomes |-> InsertOutcomes,
                io |-> TRUE, index |-> "ok",
                search |-> FALSE]

PolicyCounts == {2, 3, 5, 10}

\* the profiles a user can have: the new user's, and profiles with folded
\* vectors; a baseline needs 10 vectors, gradual_risk 5, full_auth 10
PolicyProfiles ==
    {DefaultProfile} \cup
    {x \in [resident : {TRUE},
            cumulative_vector : {_normalize_vector(RawA), _normalize_vector(Raw(3, 4))},
            baseline_vector : {NoVector, _normalize_vector(RawB)},
            vector_count : PolicyCounts,
            learning_phase : Phases] :
        /\ x.baseline_vector # NoVector => x.vector_count >= 10
        /\ x.learning_phase = "gradual_risk" => x.vector_count >= 5
        /\ x.learning_phase = "full_auth" => x.vector_count >= 10}

\* the engine holds the profile in its cache or has just been constructed; the
\* repository holds what the folds and the promotions of that profile wrote, or,
\* for a cached profile whose Cumulative inserts all failed, no Cumulative record
InitPolicy ==
    \E p \in PolicyProfiles, cached \in BOOLEAN, saved \in BOOLEAN :
       /\ ~saved => cached /\ p.vector_count > 0
       /\ user_profiles = [u \in Users |-> IF u = "u1" /\ cached THEN p ELSE NoProfile]
       /\ db_session = [sid \in SessionIds |-> NoRecord]
       /\ db_cumulative = [k \in Keys |->
                             IF /\ k = _generate_uuid_from_string("u1")
                                /\ p.vector_count > 0
                                /\ saved
                             THEN CumulativeRecord("u1", p) ELSE NoRecord]
       /\ db_baseline = [k \in Keys |->
                           IF k = "u1" /\ p.baseline_vector # NoVector
                           THEN [rows |-> 1, vector_data |-> p.baseline_vector]
                           ELSE NoBaselines]
       /\ db_user_profiles = [u \in Users |->
                                IF u = "u1"
                                THEN [RegisteredRow(u) EXCEPT
                                        !.current_phase = p.learning_phase]
                                ELSE NoUserRow]
       /\ tasks = [t \in TaskIds |-> IdleTask]
       /\ hist = [u \in Users |-> [NoHist EXCEPT !.other = TRUE]]
       /\ last = NoLast
       /\ cumulative_index = << >>

\* no call has been made yet
FirstCall == last.op = "init"

NextPolicy ==
    \/ \E op \in PolicyScope.entry_points, u \in PolicyScope.users,
          sid \in PolicyScope.sessions, logs \in PolicyScope.batches :
            FirstCall /\ ProcessResident(PolicyScope, op, u, sid, logs)
    \/ \E op \in PolicyScope.entry_points, u \in PolicyScope.users,
          sid \in PolicyScope.sessions, logs \in PolicyScope.batches :
            FirstCall /\ ProcessLoad(PolicyScope, op, u, sid, logs)
    \/ \E u \in PolicyScope.users, logs \in {EmptyBatch, ZeroVector} :
         FirstCall /\ ProcessMobileRejected(PolicyScope, u, logs)

SpecPolicy == InitPolicy /\ [][NextPolicy]_vars

\* the engine was constructed with a vector_dimension other than the length
\* of the vectors the processor makes: every index.add raises
FatalScope == [users |-> {"u1"}, sessions |-> {"s1"}, max_count |-> MaxCount,
               entry_points |-> EntryPoints, batches |-> {RawA, RawB},
               registered |-> {{"u1"}}, overrides |-> {None},
               store_patterns |-> StoredOrNot, insert_outcomes |-> WriteOutcomes,
               io |-> TRUE, index |-> "mismatch",
               search |-> FALSE]

InitFatal == InitFor(FatalScope)

NextFatal ==
    \/ \E op \in FatalScope.entry_points, u \in FatalScope.users,
          sid \in FatalScope.sessions, logs \in FatalScope.batches :
            ProcessResident(FatalScope, op, u, sid, logs)
    \/ \E op \in FatalScope.entry_points, u \in FatalScope.users,
          sid \in FatalScope.sessions, logs \in FatalScope.batches :
            ProcessLoad(FatalScope, op, u, sid, logs)
    \/ \E u \in FatalScope.users, sid \in FatalScope.sessions :
         EndSession(FatalScope, u, sid)

SpecFatal == InitFatal /\ [][NextFatal]_vars

\* folded vectors per user the two-user specification follows
MaxSharedCount == 2

\* two users on one engine: the session records of both are in one table and
\* the cumulative vectors of both in one index
SharedScope == [users |-> {"u1", "u2"}, sessions |-> {"s1", "s2"},
                max_count |-> MaxSharedCount,
                entry_points |-> {"process_mobile"}, batches |-> {RawA, RawB},
                registered |-> {{"u1", "u2"}}, overrides |-> {None},
                store_patterns |-> Stored, insert_outcomes |-> {"ok"},
                io |-> FALSE, index |-> "ok",
                search |-> TRUE]

InitShared == InitFor(SharedScope)

NextShared ==
    \/ \E op \in SharedScope.entry_points, u \in SharedScope.users,
          sid \in SharedScope.sessions, logs \in SharedScope.batches :
            ProcessResident(SharedScope, op, u, sid, logs)
    \/ \E op \in SharedScope.entry_points, u \in SharedScope.users,
          sid \in SharedScope.sessions, logs \in SharedScope.batches :
            ProcessLoad(SharedScope, op, u, sid, logs)
    \/ \E u \in SharedScope.users, sid \in SharedScope.sessions :
         EndSession(SharedScope, u, sid)

SpecShared == InitShared /\ [][NextShared]_vars

\* ------------------------------------------------------------------ claims
\* C1: a process call whose decision is block leaves the user's cumulative
\* vector and count as they were: as the profile the call analysed had them,
\* and as the cache had them before the call when the profile was cached.
C1_BlockLeavesCumulative ==
    [][(last'.op \in EntryPoints /\ last'.result.decision = "block")
         => /\ last'.kept
            /\ user_profiles[last'.user].resident
                 => SameCumulative(user_profiles[last'.user],
                                   user_profiles'[last'.user])]_vars

\* a call was blocked for a user who has folded vectors
C1_Witness ==
    /\ last.op \in EntryPoints
    /\ last.result.decision = "block"
    /\ user_profiles[last.user].vector_count >= 2

\* C2: no end_session folds the stored vector of a session whose process call
\* was blocked.
C2_NoBlockedFold == last.folded # "block"

\* C3 (amended): for a user starting empty, after n calls that do not overlap,
\* pass the checks of the batch and of the vector and are not blocked, the count
\* is n, whatever the repository writes did.
C3_CountIsValidatedCalls ==
    \A u \in Users :
       (user_profiles[u].resident /\ ~hist[u].other /\ ~hist[u].overlapped)
          => user_profiles[u].vector_count = hist[u].valid

\* three folds, one of them not persisted, and a rejected call among the calls
C3_Witness ==
    \E u \in Users :
       /\ user_profiles[u].resident /\ ~hist[u].other
       /\ hist[u].valid = 3 /\ hist[u].degenerate = 1
       /\ user_profiles[u].vector_count = 3
       /\ db_cumulative[_generate_uuid_from_string(u)].vector_count < 3

\* C3 as stated: the count is the number of calls whose decision is not block
C3_CountIsCalls ==
    \A u \in Users :
       (user_profiles[u].resident /\ ~hist[u].other /\ ~hist[u].overlapped)
          => user_profiles[u].vector_count = hist[u].valid + hist[u].degenerate

\* C4: when calls for one user overlap no cumulative update is lost: once every
\* call has returned, the count is the number of calls that passed the checks
\* and were not blocked (2 for two such calls on an empty profile).
C4_NoLostUpdate ==
    \A u \in Users :
       (/\ user_profiles[u].resident
        /\ ~hist[u].other
        /\ \A t \in TaskIds : tasks[t].state = "idle")
          => user_profiles[u].vector_count = hist[u].valid

\* C5: the phase of a cached profile and the phase of the repository row never
\* move backward along learning, gradual_risk, full_auth.
C5_PhaseMonotone ==
    [][\A u \in Users :
          /\ (user_profiles[u].resident /\ user_profiles'[u].resident)
                => PhaseRank(user_profiles'[u].learning_phase)
                      >= PhaseRank(user_profiles[u].learning_phase)
          /\ (db_user_profiles[u].exists /\ db_user_profiles'[u].exists)
                => PhaseRank(db_user_profiles'[u].current_phase)
                      >= PhaseRank(db_user_profiles[u].current_phase)]_vars

\* C6: when the phase of a user is full_auth, in the cache or in the repository
\* row, the repository holds a Baseline record of that user (under the internal
\* id or under the external id).
C6_FullAuthHasBaseline ==
    \A u \in Users :
       (\/ user_profiles[u].resident /\ user_profiles[u].learning_phase = "full_auth"
        \/ db_user_profiles[u].exists /\ db_user_profiles[u].current_phase = "full_auth")
          => \/ db_baseline[u].rows > 0
             \/ db_baseline[_generate_uuid_from_string(u)].rows > 0

\* C7: a promotion to full_auth whose baseline write or phase write raised
\* leaves the phase of the cached profile at gradual_risk.
C7_PhaseWaitsForBothWrites ==
    (/\ last.op = "end_session"
     /\ last.writes.baseline # "-"
     /\ Raises(last.writes.baseline) \/ Raises(last.writes.phase))
       => user_profiles[last.user].learning_phase # "full_auth"

\* C8: once five process calls were folded into a new user's profile, no
\* end_session having folded anything, the phase of the profile is not learning.
C8_GradualAfterFiveCalls ==
    \A u \in Users :
       (/\ user_profiles[u].resident
        /\ ~hist[u].other
        /\ hist[u].valid >= 5
        /\ user_profiles[u].vector_count >= 5)
          => user_profiles[u].learning_phase # "learning"

\* C9: a process call given no phase argument is judged by the policy of the
\* phase of the profile it analysed.
C9_PolicyIsProfilePhase ==
    (last.op \in EntryPoints /\ last.policy # None /\ last.override = None)
       => last.policy = last.phase

\* C10: once a Baseline record of a user is in the repository no record is added
\* to it and it is not replaced, and a baseline vector set in the cached profile
\* stays what it is.
C10_BaselineCreatedOnce ==
    [][/\ \A k \in Keys :
             db_baseline[k].rows > 0 => db_baseline'[k] = db_baseline[k]
       /\ \A u \in Users :
             (/\ user_profiles[u].resident
              /\ user_profiles'[u].resident
              /\ user_profiles[u].baseline_vector # NoVector)
                => user_profiles'[u].baseline_vector =
                      user_profiles[u].baseline_vector]_vars

\* C11: a cached profile has a baseline vector if and only if its phase has been
\* full_auth.  Where calls do not overlap the phase of a cached profile never
\* moves backward, so the phase has been full_auth exactly when it is.
C11_BaselineIffFullAuth ==
    \A u \in Users :
       user_profiles[u].resident
          => (user_profiles[u].baseline_vector # NoVector
                <=> user_profiles[u].learning_phase = "full_auth")

\* C12: the count of a cached profile is 0 if and only if its cumulative vector
\* is the zero vector.
C12_ZeroCountIffZeroVector ==
    \A u \in Users :
       user_profiles[u].resident
          => (user_profiles[u].vector_count = 0
                <=> user_profiles[u].cumulative_vector = ZeroVector)

\* C13: a process call judged by the full_auth policy leaves the profile with a
\* baseline vector: a profile without one was given one before the comparison,
\* whatever its count.
C13_FullAuthCreatesBaseline ==
    (last.op \in EntryPoints /\ last.policy = "full_auth")
       => user_profiles[last.user].baseline_vector # NoVector

\* C14: under the gradual_risk policy with at least 3 folded vectors and
\* T = 0.6, for s the cosine of the session vector and the cumulative vector:
\* allow and low iff s >= T, challenge and medium iff 0.7 T <= s < T, block and
\* high iff s < 0.7 T (so exactly one of the three).
C14_GradualBands ==
    (/\ last.op \in EntryPoints
     /\ last.policy = "gradual_risk"
     /\ last.analysed.vector_count >= 3)
       => LET s == _calculate_cosine_similarity(last.session_vector,
                                                last.analysed.cumulative_vector)
              d == last.result.decision
              r == last.result.risk_level
              one == Scale * Scale
          IN /\ last.result.similarity_score = s
             /\ (d = "allow" /\ r = "low") <=> (10 * s >= 6 * one)
             /\ (d = "challenge" /\ r = "medium")
                   <=> (100 * s >= 42 * one /\ 10 * s < 6 * one)
             /\ (d = "block" /\ r = "high") <=> (100 * s < 42 * one)

\* a session in the middle band was challenged
C14_Witness ==
    /\ last.op \in EntryPoints
    /\ last.policy = "gradual_risk"
    /\ last.analysed.vector_count >= 3
    /\ last.result.decision = "challenge"
    /\ 100 * last.result.similarity_score >= 42 * Scale * Scale
    /\ 10 * last.result.similarity_score < 6 * Scale * Scale

\* C15: under the full_auth policy, with T = 0.8 and s the higher of the cosine
\* of the session vector with the baseline vector and with the cumulative vector
\* (the baseline as the comparison has it, 0.0 for a baseline that is absent):
\* allow and low iff s >= T, challenge and medium iff 0.8 T <= s < T, block and
\* high iff s < 0.8 T; the confidence is 0.9.
C15_FullAuthBands ==
    (last.op \in EntryPoints /\ last.policy = "full_auth")
       => LET b == _calculate_cosine_similarity(
                       last.session_vector,
                       user_profiles[last.user].baseline_vector)
              c == _calculate_cosine_similarity(
                       last.session_vector, last.analysed.cumulative_vector)
              s == IF b >= c THEN b ELSE c
              d == last.result.decision
              r == last.result.risk_level
              one == Scale * Scale
          IN /\ last.result.similarity_score = s
             /\ last.result.confidence = 90
             /\ (d = "allow" /\ r = "low") <=> (10 * s >= 8 * one)
             /\ (d = "challenge" /\ r = "medium")
                   <=> (100 * s >= 64 * one /\ 10 * s < 8 * one)
             /\ (d = "block" /\ r = "high") <=> (100 * s < 64 * one)

\* a session nearer to the baseline than to the cumulative vector was allowed
\* on the strength of the baseline
C15_Witness ==
    /\ last.op \in EntryPoints
    /\ last.policy = "full_auth"
    /\ last.analysed.baseline_vector # NoVector
    /\ last.result.decision = "allow"
    /\ last.result.similarity_score =
          _calculate_cosine_similarity(last.session_vector,
                                       last.analysed.baseline_vector)
    /\ 10 * _calculate_cosine_similarity(last.session_vector,
                                         last.analysed.cumulative_vector)
          < 8 * Scale * Scale

\* C16: a process call judged by the learning policy returns learn, whatever
\* the profile and the session vector, with confidence min(0.8, count / 5) when
\* the profile has folded vectors, and its session vector is folded: the count
\* of the profile goes up by one.
C16_LearningAlwaysLearns ==
    (last.op \in EntryPoints /\ last.policy = "learning")
       => LET n == last.analysed.vector_count
          IN /\ last.result.decision = "learn"
             /\ n > 0 => 5 * last.result.confidence
                            = (IF 100 * n <= 5 * 80 THEN 100 * n ELSE 5 * 80)
             /\ ~last.kept
             /\ user_profiles[last.user].vector_count = n + 1

\* a session far from the profile of a user with five or more folded vectors was
\* judged learn, with the confidence at its cap, and folded
C16_Witness ==
    /\ last.op \in EntryPoints
    /\ last.policy = "learning"
    /\ last.analysed.vector_count >= 5
    /\ last.result.decision = "learn"
    /\ last.result.confidence = 80
    /\ last.result.similarity_score < 0
    /\ user_profiles[last.user].vector_count = last.analysed.vector_count + 1
    /\ user_profiles[last.user].cumulative_vector # last.analysed.cumulative_vector

\* C17: for a new user (no folded vector, phase learning) a process call with
\* no phase argument and a session vector that is not zero returns learn with
\* similarity 0.0 and confidence 0.2, and leaves the count at 1 and the
\* cumulative vector equal to the normalised session vector.
C17_FirstSession ==
    (/\ last.op \in EntryPoints
     /\ last.override = None
     /\ last.phase = "learning"
     /\ last.analysed.vector_count = 0
     /\ last.session_vector # ZeroVector)
       => /\ last.result.decision = "learn"
          /\ last.result.similarity_score = 0
          /\ last.result.confidence = 20
          /\ user_profiles[last.user].vector_count = 1
          /\ user_profiles[last.user].cumulative_vector = last.session_vector

\* the first session of a user whose profile was not cached, its cumulative
\* record not written
C17_Witness ==
    /\ last.op \in EntryPoints
    /\ last.override = None
    /\ last.analysed.vector_count = 0
    /\ last.session_vector = _normalize_vector(Raw(3, 4))
    /\ user_profiles[last.user].vector_count = 1
    /\ user_profiles[last.user].cumulative_vector = _normalize_vector(Raw(3, 4))
    /\ ~db_cumulative[_generate_uuid_from_string(last.user)].exists

\* C18: the phase of a cached profile changes only as the guards allow: it
\* becomes gradual_risk only from learning with a count of 5 or more, and
\* full_auth only from gradual_risk with a count of 10 or more; no step takes a
\* profile from learning to full_auth.
C18_TransitionsGuarded ==
    [][\A u \in Users :
          (/\ user_profiles[u].resident
           /\ user_profiles'[u].resident
           /\ user_profiles'[u].learning_phase # user_profiles[u].learning_phase)
             => /\ user_profiles'[u].learning_phase = "gradual_risk"
                   => /\ user_profiles[u].learning_phase = "learning"
                      /\ user_profiles'[u].vector_count >= 5
                /\ user_profiles'[u].learning_phase = "full_auth"
                   => /\ user_profiles[u].learning_phase = "gradual_risk"
                      /\ user_profiles'[u].vector_count >= 10]_vars

\* C19: the transition check is idempotent: evaluated a second time right after
\* an end_session evaluated it, with no cumulative update in between, it leaves
\* the phase, the baseline, the indices and the repository as the first
\* evaluation left them.
C19_TransitionIdempotent == last.op = "end_session" => last.settled

\* C20: whatever the repository calls of a process call do (the inserts of the
\* session vector, the reads of the load, the baseline insert, the cumulative
\* insert: rows, no rows, or a raise), the call returns a result: the analysis of
\* a profile (for a call that got past the checks of its batch), with a decision
\* among allow, challenge, block, learn.
C20_AlwaysReturnsResult ==
    last.op \in EntryPoints
       => /\ last.result.decision \in {"allow", "challenge", "block", "learn"}
          /\ last.result.risk_level \in {"low", "medium", "high"}
          /\ last.policy # None => /\ last.analysed.resident
                                   /\ user_profiles[last.user].resident

\* a call returned its result although the insert of the session vector, the
\* load of the profile and the insert of the cumulative vector all failed
C20_Witness ==
    /\ last.op = "process_mobile"
    /\ last.io.vector_id \in {"emergency", "local"}
    /\ \E i \in DOMAIN last.io.trace : last.io.trace[i] = <<"load", "err">>
    /\ last.result.decision = "learn"
    /\ user_profiles[last.user].vector_count = 1
    /\ ~db_cumulative[_generate_uuid_from_string(last.user)].exists

\* a repository call of the traced call raised
Failed(trace) ==
    \E i \in 1..Len(trace) : trace[i][Len(trace[i])] \in {"fk", "err", "raised"}

\* the decision of the analysis when no repository call fails, for the profile
\* and the session vector the last call analysed
ErrorFreeDecision ==
    Analyse([Engine EXCEPT !.up[last.user] = last.analysed], last.user,
            last.session_vector, PhaseArgument(last.override), "ok").result.decision

\* C21: a call during which a repository call failed returns allow only if the
\* analysis without failures returns allow for the same profile and session
\* vector; a call whose profile load failed never returns allow.
C21_NoErrorPathAllows ==
    (last.op \in EntryPoints /\ Failed(last.io.trace)) =>
        /\ last.result.decision = "allow" => ErrorFreeDecision = "allow"
        /\ (\E i \in 1..Len(last.io.trace) : last.io.trace[i] = <<"load", "err">>)
              => last.result.decision \in {"learn", "block"}

\* the baseline insert of a full_auth analysis raised and the call allowed
C21_Witness ==
    /\ last.op \in EntryPoints
    /\ last.writes.baseline = "err"
    /\ Failed(last.io.trace)
    /\ last.result.decision = "allow"
    /\ user_profiles[last.user].baseline_vector = NoVector

\* the last call was given an empty batch, or its vector is all-zero
Degenerate ==
    last.result.risk_factor = "no_logs" \/ last.session_vector = ZeroVector

\* C22: a process call whose batch is empty or whose vector is all-zero returns
\* learn (with confidence 0.3 for the all-zero vector), leaves the cumulative
\* vector, the count, the baseline and the phase of the profile as they were
\* and appends nothing to the cumulative and baseline indices.
C22_DegenerateLeavesProfiles ==
    (last.op \in EntryPoints /\ Degenerate) =>
        /\ last.result.decision = "learn"
        /\ last.session_vector = ZeroVector => last.result.confidence = 30
        /\ last.kept
        /\ last.analysed.resident =>
              /\ user_profiles[last.user].baseline_vector = last.analysed.baseline_vector
              /\ user_profiles[last.user].learning_phase = last.analysed.learning_phase
        /\ last.io.added.cumulative = 0
        /\ last.io.added.baseline = 0

\* C23: a process_mobile call whose vector is all-zero attempts the insert of
\* the Session record before it returns the learn result of the zero check.
C23_ZeroVectorStillStored ==
    (last.op = "process_mobile" /\ last.result.risk_factor = "invalid_vector") =>
        \E i \in 1..Len(last.io.trace) :
            last.io.trace[i][1] = "put" /\ last.io.trace[i][2] = "session"

\* C24: every insert of a Session, Cumulative or Baseline record that fails
\* with a foreign-key violation is followed by one insert of the user's row and
\* then, that insert having returned the row, by one more attempt of the same
\* insert; when the row insert or the second attempt raises, the record id has
\* the local_ prefix.
C24_ForeignKeyRecovery ==
    last.op \in EntryPoints =>
        \A i \in 1..Len(last.io.trace) :
            (last.io.trace[i][1] = "put" /\ last.io.trace[i][3] = "fk") =>
                /\ i < Len(last.io.trace)
                /\ last.io.trace[i + 1][1] = "ensure_user"
                /\ last.io.trace[i + 1][2] = "ok" =>
                      /\ i + 1 < Len(last.io.trace)
                      /\ last.io.trace[i + 2][1] = "put"
                      /\ last.io.trace[i + 2][2] = last.io.trace[i][2]
                /\ (last.io.trace[i][2] = "session"
                      /\ last.io.trace[i + 1][2] = "err") => last.io.vector_id = "local"

\* C25: a process call all of whose inserts of vector records raised returns a
\* record id that is not null and has the local_ prefix.
C25_LocalIdWhenPutsFail ==
    (/\ last.op \in EntryPoints
     /\ \E i \in 1..Len(last.io.trace) : last.io.trace[i][1] = "put"
     /\ \A i \in 1..Len(last.io.trace) :
           last.io.trace[i][1] = "put" => Raises(last.io.trace[i][3]))
        => last.io.vector_id = "local"

\* an index.add of the last call raised
IndexRaised ==
    \E i \in 1..Len(last.io.trace) :
        last.io.trace[i][1] = "index_add" /\ Len(last.io.trace[i]) = 3

\* C26: a process call during which an index.add raised is aborted: it returns
\* no analysis result and leaves the cumulative vector and the count of the
\* profile as they were.
C26_FatalAborts ==
    (last.op \in EntryPoints /\ IndexRaised) =>
        /\ last.result.decision = None
        /\ last.kept

\* C27: in every cumulative update of a process call the cached profile is
\* updated, then the vector is appended to the cumulative index, and only then
\* is the insert of the Cumulative record attempted.
C27_IndexBeforePut ==
    last.op \in EntryPoints =>
        \A j \in 1..Len(last.io.trace) :
            (last.io.trace[j][1] = "put" /\ last.io.trace[j][2] = "cumulative") =>
                \E k \in 1..j, i \in 1..j :
                    /\ k < i
                    /\ i < j
                    /\ last.io.trace[k] = <<"profile_update">>
                    /\ last.io.trace[i] = <<"index_add", "cumulative">>

\* the insert of the Cumulative record of the last call raised
CumulativePutRaised ==
    \E j \in 1..Len(last.io.trace) :
        /\ last.io.trace[j][1] = "put"
        /\ last.io.trace[j][2] = "cumulative"
        /\ Raises(last.io.trace[j][3])

CumulativePutStored ==
    \E j \in 1..Len(last.io.trace) : last.io.trace[j] = <<"put", "cumulative", "ok">>

\* C29: a cumulative update whose insert succeeds, also after updates whose
\* inserts failed, writes a Cumulative record with the current cumulative vector
\* and a vector_count equal to the count of the cached profile: the latest
\* record of the repository matches the cached profile again.
C29_SuccessfulPutCatchesUp ==
    (last.op \in EntryPoints /\ CumulativePutStored) => RecordMatches(Engine, last.user)

\* the profile had three folded vectors none of which the repository held; the
\* insert of the fourth succeeded and the record carries vector and count 4
C29_Witness ==
    /\ last.op \in EntryPoints
    /\ CumulativePutStored
    /\ last.behind
    /\ last.analysed.vector_count = 3
    /\ db_cumulative[_generate_uuid_from_string(last.user)].vector_count = 4
    /\ RecordMatches(Engine, last.user)

\* a read of the profile load of the last call raised
LoadFailed ==
    \E i \in 1..Len(last.io.trace) : last.io.trace[i] = <<"load", "err">>

\* C30: when a read made while loading a profile raises, the load returns, and
\* caches, the default profile: zero cumulative vector, count 0, no baseline,
\* phase learning; the call goes on and returns its result.
C30_FailedLoadGivesDefault ==
    (last.op \in EntryPoints /\ LoadFailed) =>
        /\ last.analysed.resident
        /\ last.analysed.cumulative_vector = ZeroVector
        /\ last.analysed.vector_count = 0
        /\ last.analysed.baseline_vector = NoVector
        /\ last.analysed.learning_phase = "learning"
        /\ last.result.decision # None

\* the repository holds ten folded vectors and the phase full_auth for the
\* user; the load failed and the call analysed the default profile
C30_Witness ==
    /\ last.op \in EntryPoints
    /\ LoadFailed
    /\ last.analysed = DefaultProfile
    /\ db_cumulative[_generate_uuid_from_string(last.user)].vector_count = 10
    /\ db_user_profiles[last.user].current_phase = "full_auth"

\* C31: an end_session_update that finds a Session record for its session id
\* folds the record's vector into the user's cumulative vector, the count going
\* up by one, whether or not the user's profile is in the cache; one that finds
\* no record leaves the cumulative vector and the count as they were.
C31_EndSessionFolds ==
    last.op = "end_session" => (last.found <=> ~last.kept)

\* the record is keyed by the internal id of an external user and carries that
\* external id
KeyedByInternalId(record) ==
    \E u \in Users : /\ record.user_id = _generate_uuid_from_string(u)
                     /\ record.original_user_id = u

\* C32: every Session, Cumulative and Baseline record in the repository has as
\* user_id the internal id derived from the external id and carries the
\* external id as original_user_id.
C32_RecordsKeyedByInternalId ==
    /\ \A sid \in SessionIds : db_session[sid].exists => KeyedByInternalId(db_session[sid])
    /\ \A k \in Keys : db_cumulative[k].exists => KeyedByInternalId(db_cumulative[k])
    /\ \A u \in Users : db_baseline[u].rows = 0

\* the vector is the zero vector or has norm 1 within the resolution of the
\* fixed-point representation (a rounding of half a unit in each component)
UnitOrZero(v) ==
    \/ Dot(v, v) = 0
    \/ Abs(Dot(v, v) - Scale * Scale) <= 2 * Scale

\* _load_existing_vectors: the vectors of the repository, as they are, go into
\* the three indices of a newly constructed engine
LoadedIntoIndices ==
    {db_session[sid].vector_data : sid \in {x \in SessionIds : db_session[x].exists}}
    \cup {db_cumulative[k].vector_data : k \in {x \in Keys : db_cumulative[x].exists}}
    \cup {db_baseline[k].vector_data : k \in {x \in Keys : db_baseline[x].rows > 0}}

\* the vectors the calls append to the indices: the session vector, the cached
\* cumulative vector, the cached baseline
AppendedToIndices ==
    {user_profiles[u].cumulative_vector : u \in {x \in Users : user_profiles[x].resident}}
    \cup {user_profiles[u].baseline_vector :
            u \in {x \in Users : user_profiles[x].baseline_vector # NoVector}}
    \cup (IF last.session_vector # NoVector THEN {last.session_vector} ELSE {})

C34_SessionFoldedOnce == last.folded # "pass"

\* C37: a process call that got past the checks of its batch and of its vector
\* appends exactly one vector to the session index, whatever the inserts of the
\* Session record and of the user's row did.
C37_OneSessionIndexAppend ==
    (last.op \in EntryPoints /\ last.policy # None) => last.io.added.session = 1

\* C38: a process call for a user whose profile is in the cache works on that
\* profile and reads none from the repository: it analyses the cached phase and
\* folds into the cached cumulative vector and count, also when the cached
\* profile is the default one a failed load left and the repository holds more.
C38_ResidentProfileServed ==
    [][\A u \in Users :
          (/\ user_profiles[u].resident
           /\ last'.op \in EntryPoints
           /\ last'.user = u
           /\ last'.policy # None)
             => /\ last'.phase = user_profiles[u].learning_phase
                /\ last'.kept <=> SameCumulative(user_profiles[u], user_profiles'[u])
                /\ user_profiles'[u].vector_count
                      \in {user_profiles[u].vector_count,
                           user_profiles[u].vector_count + 1}]_vars

\* the repository row says gradual_risk; the load after a restart failed and the
\* default profile it cached has served a second call
C38_Witness ==
    /\ last.op \in EntryPoints
    /\ user_profiles[last.user].resident
    /\ user_profiles[last.user].learning_phase = "learning"
    /\ user_profiles[last.user].vector_count = 2
    /\ db_user_profiles[last.user].current_phase = "gradual_risk"

\* C35: the similar_vectors a call returns are entries of the cumulative index
\* that the caller's own updates added; the sessions of other users do not
\* show in them.
C35_SimilarVectorsOwn ==
    last.op \in EntryPoints =>
        \A i \in 1..Len(last.similar_vectors) :
            cumulative_index[last.similar_vectors[i].index + 1].owner = last.user

\* the user who stored the Session record: the external id in its metadata
OwnerOf(record) == record.original_user_id

\* C36: an end_session_update for user U that finds a Session record stored by
\* another user leaves U's cumulative vector and count as they were.
C36_EndSessionOwnRecord ==
    (/\ last.op = "end_session"
     /\ last.found
     /\ OwnerOf(db_session[last.session_id]) # last.user) => last.kept

====
